---------------------------- MODULE Spec2Model ----------------------------
(***************************************************************************)
(* Model of streamlit_app.py: the text-plaque generator behind the         *)
(* "SolidPython (OpenSCAD)" page.  A page run builds a CSG tree            *)
(* (generate_solidpython_model), renders it to OpenSCAD source, writes it  *)
(* to output_solidpython/text_model.scad and shows a base64 download link  *)
(* (get_download_link).  File contents, rendered text and base64 text are  *)
(* sequences of byte values.                                               *)
(***************************************************************************)
EXTENDS Integers, Sequences, FiniteSets, TLC

(***************************************************************************)
(* Bounds of the model.                                                    *)
(***************************************************************************)
MaxTextLen == 2
MaxRuns == 1

(***************************************************************************)
(* Program constants: the ranges and defaults of the form widgets.         *)
(***************************************************************************)
MinValue == 1
DefaultSize == 10
DefaultHeight == 5
DefaultThickness == 2

\* The text typed by the user: a prefix of a sample line, as byte values.
SampleText == <<72, 105, 32, 116, 104, 101, 114, 101>>
Texts == { SubSeq(SampleText, 1, n) : n \in 0..MaxTextLen }

\* "Liberation Sans" is the form's default font; "NoSuchFont" names no font.
LiberationSans == <<76, 105, 98, 101, 114, 97, 116, 105, 111, 110, 32, 83, 97, 110, 115>>
NoSuchFont == <<78, 111, 83, 117, 99, 104, 70, 111, 110, 116>>
Fonts == {LiberationSans, NoSuchFont}
\* The fonts the downstream OpenSCAD kernel can resolve.
KnownFonts == {LiberationSans}

\* st.number_input(min_value=1, ..., value=...): the values tried
\* are the minimum and the default of each widget.
Sizes == {MinValue, DefaultSize}
Heights == {MinValue, DefaultHeight}
Thicknesses == {MinValue, DefaultThickness}

\* The values of the form "solidpython_form".
Params == [input_text : Texts, font : Fonts, size : Sizes,
           height : Heights, thickness : Thicknesses]

DefaultParams == [input_text |-> SubSeq(SampleText, 1, MaxTextLen),
                  font |-> LiberationSans, size |-> DefaultSize,
                  height |-> DefaultHeight, thickness |-> DefaultThickness]

AppModes == {"Home", "SolidPython (OpenSCAD)", "Blender (bpy API)", "FreeCAD"}
SolidMode == "SolidPython (OpenSCAD)"

Sessions == {"A", "B"}
Solo == "A"

(***************************************************************************)
(* Values of the CSG tree (SolidPython's OpenSCADObject): a node has a     *)
(* name, named parameters and children.  Parameter values are tagged.      *)
(* A Python float is kept as a whole number of tenths: every float of the  *)
(* program is an integer times 0.6.                                        *)
(***************************************************************************)
PyInt(n) == [t |-> "int", v |-> n]
PyFloat(tenths) == [t |-> "float", v |-> tenths]
PyStr(s) == [t |-> "str", v |-> s]
PyList(items) == [t |-> "list", v |-> items]

Node(name, params, children) ==
    [name |-> name, params |-> params, children |-> children]

\* size * len(input_text) * 0.6, in tenths.
WidthFactorTenths == 6

\* A text() that falls back to the default font for a font it does not know.
solid_text_fallback(input_text, size, font) ==
    Node("text", [text |-> PyStr(input_text), size |-> PyInt(size),
                  font |-> PyStr(IF font \in KnownFonts THEN font
                                 ELSE LiberationSans)], <<>>)

solid_text(input_text, size, font) ==
    Node("text", [text |-> PyStr(input_text), size |-> PyInt(size),
                  font |-> PyStr(font)], <<>>)

linear_extrude(height, child) ==
    Node("linear_extrude", [height |-> PyInt(height)], <<child>>)

cube(size) == Node("cube", [size |-> PyList(size)], <<>>)

translate(v, child) == Node("translate", [v |-> PyList(v)], <<child>>)

\* OpenSCADObject.__add__: a + b is union()(a, b).
union(a, b) == Node("union", <<>>, <<a, b>>)

\* The base's width with a factor of 0.5.
BaseWidthHalf(p) == PyFloat(p.size * Len(p.input_text) * 5)

\* size * len(input_text) * 0.6 (line 29).
BaseWidth(p) == PyFloat(p.size * Len(p.input_text) * WidthFactorTenths)

BaseOffsetZ(p) == p.thickness

\* Lines 24-31 of generate_solidpython_model: the tree of the text plaque.
BuildModel(p) ==
    LET txt == linear_extrude(p.height,
                              solid_text(p.input_text, p.size, p.font))
        base == cube(<<BaseWidth(p), PyInt(p.size), PyInt(p.thickness)>>)
    IN  union(txt, translate(<<PyInt(0), PyInt(0), PyInt(BaseOffsetZ(p))>>, base))


(***************************************************************************)
(* scad_render (SolidPython): the OpenSCAD source of a tree, as bytes.     *)
(***************************************************************************)
Ascii == [union |-> <<117, 110, 105, 111, 110>>,
          linear_extrude |-> <<108, 105, 110, 101, 97, 114, 95, 101, 120, 116, 114, 117, 100, 101>>,
          text |-> <<116, 101, 120, 116>>,
          translate |-> <<116, 114, 97, 110, 115, 108, 97, 116, 101>>,
          cube |-> <<99, 117, 98, 101>>,
          font |-> <<102, 111, 110, 116>>,
          height |-> <<104, 101, 105, 103, 104, 116>>,
          size |-> <<115, 105, 122, 101>>,
          v |-> <<118>>]

\* Named parameters are emitted in sorted key order.
SortedKeys == <<"font", "height", "size", "text", "v">>

RECURSIVE NatStr(_)
NatStr(n) == IF n < 10 THEN <<48 + n>>
             ELSE NatStr(n \div 10) \o <<48 + (n % 10)>>

\* str(o) of a Python int.
IntStr(n) == IF n < 0 THEN <<45>> \o NatStr(-n) ELSE NatStr(n)

\* "%.10f" % o of a non-negative float kept in tenths.
FloatStr(tenths) ==
    NatStr(tenths \div 10) \o <<46, 48 + (tenths % 10)>>
        \o <<48, 48, 48, 48, 48, 48, 48, 48, 48>>

RECURSIVE py2openscad(_)
RECURSIVE JoinValues(_)
JoinValues(items) ==
    IF Len(items) = 0 THEN <<>>
    ELSE IF Len(items) = 1 THEN py2openscad(items[1])
    ELSE py2openscad(items[1]) \o <<44, 32>> \o JoinValues(Tail(items))

py2openscad(o) ==
    CASE o.t = "int" -> IntStr(o.v)
      [] o.t = "float" -> FloatStr(o.v)
      [] o.t = "str" -> <<34>> \o o.v \o <<34>>
      [] o.t = "list" -> <<91>> \o JoinValues(o.v) \o <<93>>

RECURSIVE RenderParams(_, _, _)
RenderParams(params, i, first) ==
    IF i > Len(SortedKeys) THEN <<>>
    ELSE LET k == SortedKeys[i]
         IN  IF k \in DOMAIN params
             THEN (IF first THEN <<>> ELSE <<44, 32>>)
                      \o Ascii[k] \o <<32, 61, 32>> \o py2openscad(params[k])
                      \o RenderParams(params, i + 1, FALSE)
             ELSE RenderParams(params, i + 1, first)

\* OpenSCADObject._render_str_no_children: name(key = value, ...)
RenderHead(node) ==
    Ascii[node.name] \o <<40>> \o RenderParams(node.params, 1, TRUE) \o <<41>>

\* OpenSCADObject._render: a node opens a new line; the lines of its
\* children are indented by one tab more (indent(s)), here by carrying the
\* depth down the tree.
Tabs(depth) == [i \in 1..depth |-> 9]

RECURSIVE RenderNode(_, _)
RECURSIVE RenderChildren(_, _)
RenderChildren(children, depth) ==
    IF Len(children) = 0 THEN <<>>
    ELSE RenderNode(Head(children), depth)
             \o RenderChildren(Tail(children), depth)

RenderNode(node, depth) ==
    IF Len(node.children) = 0
    THEN <<10>> \o Tabs(depth) \o RenderHead(node) \o <<59>>
    ELSE <<10>> \o Tabs(depth) \o RenderHead(node) \o <<32, 123>>
             \o RenderChildren(node.children, depth + 1)
             \o <<10>> \o Tabs(depth) \o <<125>>

\* scad_render(model): the (empty) include block, a newline, the body.
scad_render(model) == <<10>> \o RenderNode(model, 0)

(***************************************************************************)
(* base64.b64encode(bytes_data).decode(): the base64 text, as bytes.       *)
(***************************************************************************)
B64Alphabet == <<65, 66, 67, 68, 69, 70, 71, 72, 73, 74, 75, 76, 77, 78, 79, 80, 81, 82, 83, 84, 85, 86, 87, 88, 89, 90, 97, 98, 99, 100, 101, 102, 103, 104, 105, 106, 107, 108, 109, 110, 111, 112, 113, 114, 115, 116, 117, 118, 119, 120, 121, 122, 48, 49, 50, 51, 52, 53, 54, 55, 56, 57, 43, 47>>

B64Char(sextet) == B64Alphabet[sextet + 1]

\* Byte i of b, and 0 past its end (the zero bits of the last group).
ByteAt(b, i) == IF i <= Len(b) THEN b[i] ELSE 0

\* Character j (0..3) of the group that encodes bytes b1 b2 b3.
B64Sextet(b1, b2, b3, j) ==
    CASE j = 0 -> b1 \div 4
      [] j = 1 -> (b1 % 4) * 16 + b2 \div 16
      [] j = 2 -> (b2 % 16) * 4 + b3 \div 64
      [] j = 3 -> b3 % 64

\* Three bytes give four characters; a last group of one or two bytes is
\* padded with "=".
B64Text(b) ==
    [k \in 1..(4 * ((Len(b) + 2) \div 3)) |->
        LET g == (k - 1) \div 4
            j == (k - 1) % 4
        IN  IF 3 * g + j > Len(b) THEN 61
            ELSE B64Char(B64Sextet(ByteAt(b, 3 * g + 1), ByteAt(b, 3 * g + 2),
                                   ByteAt(b, 3 * g + 3), j))]

\* An encoder that drops a last group of fewer than three bytes.
b64encode_whole_groups(b) == B64Text(SubSeq(b, 1, 3 * (Len(b) \div 3)))

b64encode(b) == B64Text(b)

(***************************************************************************)
(* The file system: the directory output_solidpython and the one file      *)
(* text_model.scad in it.                                                  *)
(***************************************************************************)
NoDisk == [dir |-> FALSE, exists |-> FALSE, data |-> <<>>]

\* os.makedirs(output_dir, exist_ok=True)
makedirs(d) == [d EXCEPT !.dir = TRUE]

\* An open that creates the file but keeps what it holds (mode 'r+').
OpenKeep(d) == [d EXCEPT !.exists = TRUE]

\* open(scad_file, 'w'): creates or truncates the file; the new handle
\* writes from offset 0.
OpenWrite(d) == [d EXCEPT !.exists = TRUE, !.data = <<>>]

\* f.write(...) and the close at the end of the with block: the buffered
\* text goes to the file at the handle's offset 0, over what is there.
WriteClose(d, bytes) ==
    [d EXCEPT !.data = bytes \o SubSeq(d.data, Len(bytes) + 1, Len(d.data))]

FileName == "text_model.scad"
MimeType == "application/scad"

\* get_download_link, lines 56-57: the bytes read from the file, with the
\* name and the media type the anchor is made of.
get_download_link(d, file_name, mime_type) ==
    [mime |-> mime_type, bytes_data |-> d.data, download |-> file_name]

\* get_download_link, lines 58-60: the anchor shown for a link, a data URI
\* with the base64 text of the bytes read.
href(link) ==
    [mime |-> link.mime, b64 |-> b64encode(link.bytes_data),
     download |-> link.download]

(***************************************************************************)
(* RadialFrameBuilder.build(arm_length, arm_width, body_size,              *)
(* motor_mount_diameter, symmetry_count): a body box with N arms and N     *)
(* motor mounts placed by rotation about Z.  The tree is a left fold of    *)
(* unions over the placed primitives.                                      *)
(***************************************************************************)
MaxSymmetry == 4

\* The heights the builder fixes for the body, the arms and the mounts.
FixedHeight == [body |-> 20, arm |-> 10, mount |-> 15]

ArmLengths == {-5, 0, 10, 100}
ArmWidths == {0, 10}
BodySizes == {60}
MountDiameters == {5, 10, 100}

FrameArgs == [arm_length : ArmLengths, arm_width : ArmWidths,
              body_size : BodySizes, motor_mount_diameter : MountDiameters,
              symmetry_count : 0..MaxSymmetry]

\* Preconditions: all lengths > 0, motor_mount_diameter < arm_length,
\* symmetry_count >= 1.
MountFitsLoose(a) == a.motor_mount_diameter <= a.arm_length
MountFits(a) == a.motor_mount_diameter < a.arm_length

FrameArgsValid(a) ==
    /\ a.arm_length > 0
    /\ a.arm_width > 0
    /\ a.body_size > 0
    /\ a.motor_mount_diameter > 0
    /\ MountFits(a)
    /\ a.symmetry_count >= 1

\* i * (360 / symmetry_count) degrees, kept as the fraction num/den.
FixedQuarterTurn(i, n) == [num |-> i * 90 * n, den |-> n]
StepAngle(i, n) == [num |-> i * 360, den |-> n]

\* A leaf: a primitive, translated in its own frame, then rotated about the
\* global Z axis.  Lengths along X and Z are kept doubled (twice the value).
Leaf(kind, prim, tx2, tz2, angle) ==
    [kind |-> kind, prim |-> prim, tx2 |-> tx2, tz2 |-> tz2, rotate_z |-> angle]

BodyLeaf(a) ==
    Leaf("body", [shape |-> "box", w |-> a.body_size, d |-> a.body_size,
                  h |-> FixedHeight.body], 0, 0, StepAngle(0, 1))

\* The arm's inner edge touches the body's face along +X, at half the
\* body's height.
ArmLeaf(a, i) ==
    Leaf("arm", [shape |-> "box", w |-> a.arm_length, d |-> a.arm_width,
                 h |-> FixedHeight.arm],
         a.body_size, FixedHeight.body, StepAngle(i, a.symmetry_count))

\* The mount sits at the outer end of arm i.
MountLeaf(a, i) ==
    Leaf("mount", [shape |-> "cylinder", d |-> a.motor_mount_diameter,
                   h |-> FixedHeight.mount],
         a.body_size + 2 * a.arm_length, FixedHeight.body,
         StepAngle(i, a.symmetry_count))

UnionNode(left, right) == [kind |-> "union", left |-> left, right |-> right]

FrameIdle == [pc |-> "idle", args |-> [arm_length |-> 100, arm_width |-> 10,
                                       body_size |-> 60,
                                       motor_mount_diameter |-> 10,
                                       symmetry_count |-> 4],
              root |-> <<>>, i |-> 0, kernel_calls |-> 0, raised |-> "none"]

(***************************************************************************)
(* State.  One record per browser session, one disk for the server.        *)
(***************************************************************************)
VARIABLES
    mode,    \* mode[s]: the sidebar radio's value (app_mode)
    form,    \* form[s]: the values last submitted with the form
    page,    \* page[s]: what the session's last page run displayed
    built,   \* built[s]: the tree `model` of the run's generate call, if any
    disk,    \* output_solidpython/text_model.scad on the server
    pc,      \* pc[s]: where the session's page run stands
    runs,    \* runs[s]: submits started by the session (stepwise runs)
    fault,   \* fault[s]: the I/O failure injected into the last page run
    frame    \* the call of RadialFrameBuilder.build in progress

vars == <<mode, form, page, built, disk, pc, runs, fault, frame>>

BlankPage(m) == [mode |-> m, success |-> FALSE, links |-> <<>>, error |-> "none"]

Init ==
    /\ mode = [s \in Sessions |-> "Home"]
    /\ form = [s \in Sessions |-> DefaultParams]
    /\ page = [s \in Sessions |-> BlankPage("Home")]
    /\ built = [s \in Sessions |-> <<>>]
    /\ disk = NoDisk
    /\ pc = [s \in Sessions |-> "idle"]
    /\ runs = [s \in Sessions |-> 0]
    /\ fault = [s \in Sessions |-> "none"]
    /\ frame = FrameIdle

\* The failures injected: scad_render raises, or f.write raises.
Faults == {"render", "write"}

\* generate_solidpython_model from its os.makedirs call on (lines 33-41),
\* with the failure f injected ("none": no failure).  Both failures happen
\* inside the with block, after open(scad_file, 'w') has truncated the file.
WriteModel(d, model, f) ==
    LET d1 == OpenWrite(makedirs(d))
    IN  CASE f = "render" -> [disk |-> d1, raised |-> "Exception"]
          [] f = "write" -> [disk |-> d1, raised |-> "OSError"]
          [] OTHER -> [disk |-> WriteClose(d1, scad_render(model)),
                       raised |-> "none"]

generate_solidpython_model(d, p, f) == WriteModel(d, BuildModel(p), f)

\* A main that catches the exception of the generate call and goes on.
SubmitPageSwallow(g) ==
    [mode |-> SolidMode, success |-> TRUE,
     links |-> <<get_download_link(g.disk, FileName, MimeType)>>,
     error |-> "none"]
\* main, lines 100-109: what the page shows after the generate call.  An
\* exception of the call leaves main: Streamlit shows it in place of the
\* rest of the page.
SubmitPage(g) ==
    IF g.raised = "none"
    THEN [mode |-> SolidMode, success |-> TRUE,
          links |-> <<get_download_link(g.disk, FileName, MimeType)>>,
          error |-> "none"]
    ELSE [mode |-> SolidMode, success |-> FALSE, links |-> <<>>,
          error |-> g.raised]

\* A page run without a form submit: the sidebar radio is set to m and the
\* script reruns.  Only a header and static text are shown.  The form's
\* widgets keep their values while the form stays on the page.
Navigate(s, m) ==
    /\ pc[s] = "idle"
    /\ mode' = [mode EXCEPT ![s] = m]
    /\ form' = [form EXCEPT ![s] = IF m = SolidMode /\ mode[s] = SolidMode
                                    THEN form[s] ELSE DefaultParams]
    /\ page' = [page EXCEPT ![s] = BlankPage(m)]
    /\ built' = [built EXCEPT ![s] = <<>>]
    /\ fault' = [fault EXCEPT ![s] = "none"]
    /\ UNCHANGED <<disk, pc, runs, frame>>

\* A whole page run with the form submitted with values p, under the
\* injected failure f: main's SolidPython branch, lines 85-109.
SubmitRun(s, p, f) ==
    /\ pc[s] = "idle"
    /\ mode[s] = SolidMode
    /\ LET g == generate_solidpython_model(disk, p, f)
       IN  /\ disk' = g.disk
           /\ page' = [page EXCEPT ![s] = SubmitPage(g)]
    /\ form' = [form EXCEPT ![s] = p]
    /\ built' = [built EXCEPT ![s] = <<BuildModel(p)>>]
    /\ fault' = [fault EXCEPT ![s] = f]
    /\ UNCHANGED <<mode, pc, runs, frame>>

Submit(s, p) == SubmitRun(s, p, "none")

SubmitFault(s, p, f) == SubmitRun(s, p, f)

(***************************************************************************)
(* The same page run in steps, for sessions served concurrently: the       *)
(* script of each session runs in its own thread, and the threads          *)
(* interleave at the file operations.                                      *)
(***************************************************************************)
\* Lines 92-102 and 24-31: the form is submitted and the tree is built.
SubmitStart(s, p) ==
    /\ pc[s] = "idle"
    /\ mode[s] = SolidMode
    /\ runs[s] < MaxRuns
    /\ runs' = [runs EXCEPT ![s] = runs[s] + 1]
    /\ form' = [form EXCEPT ![s] = p]
    /\ built' = [built EXCEPT ![s] = <<BuildModel(p)>>]
    /\ page' = [page EXCEPT ![s] = BlankPage(SolidMode)]
    /\ fault' = [fault EXCEPT ![s] = "none"]
    /\ pc' = [pc EXCEPT ![s] = "built"]
    /\ UNCHANGED <<mode, disk, frame>>

\* Lines 34-38: os.makedirs and open(scad_file, 'w').
GenOpen(s) ==
    /\ pc[s] = "built"
    /\ disk' = OpenWrite(makedirs(disk))
    /\ pc' = [pc EXCEPT ![s] = "opened"]
    /\ UNCHANGED <<mode, form, page, built, runs, fault, frame>>

\* Lines 39-41: f.write(scad_render(model)) and the close of the file.
GenWrite(s) ==
    /\ pc[s] = "opened"
    /\ disk' = WriteClose(disk, scad_render(built[s][1]))
    /\ pc' = [pc EXCEPT ![s] = "generated"]
    /\ UNCHANGED <<mode, form, page, built, runs, fault, frame>>

\* Lines 103-109: st.success, get_download_link, st.markdown.
ShowLink(s) ==
    /\ pc[s] = "generated"
    /\ page' = [page EXCEPT ![s] =
                   SubmitPage([disk |-> disk, raised |-> "none"])]
    /\ pc' = [pc EXCEPT ![s] = "idle"]
    /\ UNCHANGED <<mode, form, built, disk, runs, fault, frame>>

(***************************************************************************)
(* RadialFrameBuilder.build in steps; kernel_calls counts the calls made   *)
(* to the CSG kernel (primitive construction and union).                   *)
(***************************************************************************)
FrameCall(a) ==
    /\ frame.pc \in {"idle", "done", "raised"}
    /\ frame' = [pc |-> "validate", args |-> a, root |-> <<>>, i |-> 0,
                 kernel_calls |-> 0, raised |-> "none"]
    /\ UNCHANGED <<mode, form, page, built, disk, pc, runs, fault>>

\* The preconditions are checked before any geometry is built.
FrameValidate ==
    /\ frame.pc = "validate"
    /\ frame' = IF FrameArgsValid(frame.args)
                THEN [frame EXCEPT !.pc = "body"]
                ELSE [frame EXCEPT !.pc = "raised",
                                   !.raised = "InvalidParameter"]
    /\ UNCHANGED <<mode, form, page, built, disk, pc, runs, fault>>

\* Step 1: the central body.
FrameBody ==
    /\ frame.pc = "body"
    /\ frame' = [frame EXCEPT !.pc = "arms", !.i = 0,
                              !.root = <<BodyLeaf(frame.args)>>,
                              !.kernel_calls = @ + 1]
    /\ UNCHANGED <<mode, form, page, built, disk, pc, runs, fault>>

\* Step 2: arm i is built, placed, rotated and unioned into the root.
FrameArm ==
    /\ frame.pc = "arms"
    /\ frame' =
         IF frame.i < frame.args.symmetry_count
         THEN [frame EXCEPT
                 !.root = <<UnionNode(frame.root[1], ArmLeaf(frame.args, frame.i))>>,
                 !.i = @ + 1, !.kernel_calls = @ + 2]
         ELSE [frame EXCEPT !.pc = "mounts", !.i = 0]
    /\ UNCHANGED <<mode, form, page, built, disk, pc, runs, fault>>

\* Step 3: mount i is built, placed, rotated and unioned into the root.
FrameMount ==
    /\ frame.pc = "mounts"
    /\ frame' =
         IF frame.i < frame.args.symmetry_count
         THEN [frame EXCEPT
                 !.root = <<UnionNode(frame.root[1], MountLeaf(frame.args, frame.i))>>,
                 !.i = @ + 1, !.kernel_calls = @ + 2]
         ELSE [frame EXCEPT !.pc = "done"]
    /\ UNCHANGED <<mode, form, page, built, disk, pc, runs, fault>>

NextFrame ==
    \/ \E a \in FrameArgs : FrameCall(a)
    \/ FrameValidate
    \/ FrameBody
    \/ FrameArm
    \/ FrameMount

SpecFrame == Init /\ [][NextFrame]_vars

\* One session, whole page runs.
Next ==
    \/ \E m \in AppModes : Navigate(Solo, m)
    \/ \E p \in Params : Submit(Solo, p)

Spec == Init /\ [][Next]_vars

\* One session, whole page runs, some of which meet an I/O failure.
NextFault ==
    \/ \E m \in AppModes : Navigate(Solo, m)
    \/ \E p \in Params : Submit(Solo, p)
    \/ \E p \in Params, f \in Faults : SubmitFault(Solo, p, f)

SpecFault == Init /\ [][NextFault]_vars

\* Sessions served concurrently, page runs in steps.
NextConc ==
    \/ \E s \in Sessions, m \in AppModes : Navigate(s, m)
    \/ \E s \in Sessions, p \in Params : SubmitStart(s, p)
    \/ \E s \in Sessions : GenOpen(s)
    \/ \E s \in Sessions : GenWrite(s)
    \/ \E s \in Sessions : ShowLink(s)

SpecConc == Init /\ [][NextConc]_vars

(***************************************************************************)
(* What the claims speak of.                                               *)
(***************************************************************************)
\* OpenSCAD's meaning of the tree along Z: cube(size) fills [0, size.z],
\* linear_extrude(height) fills [0, height], translate(v) shifts by v.z.
RECURSIVE ZExtent(_)
ZExtent(node) ==
    CASE node.name = "cube" -> [lo |-> 0, hi |-> node.params.size.v[3].v]
      [] node.name = "linear_extrude" -> [lo |-> 0, hi |-> node.params.height.v]
      [] node.name = "translate" ->
            LET e == ZExtent(node.children[1])
                dz == node.params.v.v[3].v
            IN  [lo |-> e.lo + dz, hi |-> e.hi + dz]

\* The two operands of the plaque's union, and the base's box.
TextPart(model) == model.children[1]
BasePart(model) == model.children[2]
BaseCube(model) == BasePart(model).children[1]

\* The open intervals (a.lo, a.hi) and (b.lo, b.hi) share a point.
Overlap(a, b) == a.lo < b.hi /\ b.lo < a.hi

ValidParams(p) ==
    /\ Len(p.input_text) > 0
    /\ p.size > 0
    /\ p.height > 0
    /\ p.thickness > 0

\* The bytes `part` occur in `whole`.
Occurs(part, whole) ==
    \E i \in 1..(Len(whole) - Len(part) + 1) :
        SubSeq(whole, i, i + Len(part) - 1) = part

\* The inverse of base64: the sextet of a character, and the bytes of a
\* padded base64 text.
SextetTable ==
    [c \in 0..127 |-> IF \E i \in 1..64 : B64Alphabet[i] = c
                      THEN (CHOOSE i \in 1..64 : B64Alphabet[i] = c) - 1
                      ELSE 0]
SextetOf(c) == SextetTable[c]

Pads(t) == IF Len(t) = 0 THEN 0
           ELSE IF t[Len(t)] # 61 THEN 0
           ELSE IF t[Len(t) - 1] # 61 THEN 1 ELSE 2

B64Decode(t) ==
    [k \in 1..(3 * (Len(t) \div 4) - Pads(t)) |->
        LET g == (k - 1) \div 3
            j == (k - 1) % 3
            c1 == SextetOf(t[4 * g + 1])
            c2 == SextetOf(t[4 * g + 2])
            c3 == SextetOf(t[4 * g + 3])
            c4 == SextetOf(t[4 * g + 4])
        IN  CASE j = 0 -> c1 * 4 + c2 \div 16
              [] j = 1 -> (c2 % 16) * 16 + c3 \div 4
              [] j = 2 -> (c3 % 4) * 64 + c4]

Hi == SubSeq(SampleText, 1, 2)

\* A session whose last page run submitted the form and built a tree.
Generated(s) == built[s] # <<>>

(***************************************************************************)
(* C1 (as claimed): whenever a plaque has been built, its base fills       *)
(* Z in [-base_thickness, 0], its text fills Z in [0, extrude_height], and *)
(* the two do not overlap in Z.                                            *)
(***************************************************************************)
C1_BaseBeneathText ==
    \A s \in Sessions :
        Generated(s) =>
            LET m == built[s][1]
            IN  /\ ZExtent(BasePart(m)) = [lo |-> -form[s].thickness, hi |-> 0]
                /\ ZExtent(TextPart(m)) = [lo |-> 0, hi |-> form[s].height]
                /\ ~Overlap(ZExtent(BasePart(m)), ZExtent(TextPart(m)))

(***************************************************************************)
(* C2: whenever a plaque has been built from the submitted values, its     *)
(* base box is size * len(input_text) * 0.6 wide (in tenths: * 6), size    *)
(* deep and base_thickness high, whatever the font and extrude height.     *)
(***************************************************************************)
C2_BaseBoxDimensions ==
    \A s \in Sessions :
        Generated(s) =>
            BaseCube(built[s][1]).params.size.v =
                << PyFloat(form[s].size * Len(form[s].input_text) * 6),
                   PyInt(form[s].size), PyInt(form[s].thickness) >>

\* "Hi" at size 10 has been built with the other font and a height of 1:
\* the base is 12.0 wide.
C2_Witness ==
    /\ Generated(Solo)
    /\ form[Solo].input_text = Hi
    /\ form[Solo].size = DefaultSize
    /\ form[Solo].font = NoSuchFont
    /\ form[Solo].height = MinValue
    /\ BaseCube(built[Solo][1]).params.size.v[1] = PyFloat(120)

(***************************************************************************)
(* C3 (as claimed): a submit whose text is empty or whose size, height or  *)
(* thickness is not > 0 is rejected with InvalidParameter: no tree is      *)
(* built, no file is written, no success and no link are shown.            *)
(***************************************************************************)
C3_InvalidRejected ==
    \A s \in Sessions :
        (page[s].mode = SolidMode /\ ~ValidParams(form[s])) =>
            /\ ~Generated(s)
            /\ ~page[s].success
            /\ page[s].links = <<>>
            /\ page[s].error \in {"none", "InvalidParameter"}

(***************************************************************************)
(* C4 (as claimed): a build whose font the kernel cannot resolve fails     *)
(* with FontNotFound, shows no success and yields no artifact.             *)
(***************************************************************************)
C4_FontNotFound ==
    \A s \in Sessions :
        (Generated(s) /\ form[s].font \notin KnownFonts) =>
            /\ page[s].error = "FontNotFound"
            /\ ~page[s].success
            /\ page[s].links = <<>>

(***************************************************************************)
(* C4 (amended): a build whose font the kernel cannot resolve does not     *)
(* fail: the font name goes unchanged into the tree and into the source    *)
(* written, and the run shows success and a link to that source.           *)
(***************************************************************************)
C4_FontPassedThrough ==
    (Generated(Solo) /\ form[Solo].font \notin KnownFonts) =>
        /\ TextPart(built[Solo][1]).children[1].params.font = PyStr(form[Solo].font)
        /\ page[Solo].success
        /\ page[Solo].error = "none"
        /\ Len(page[Solo].links) = 1
        /\ page[Solo].links[1].bytes_data = disk.data
        /\ Occurs(<<34>> \o form[Solo].font \o <<34>>, disk.data)
        /\ ~Occurs(LiberationSans, disk.data)

C4_Witness ==
    /\ Generated(Solo)
    /\ form[Solo].font = NoSuchFont
    /\ page[Solo].success
    /\ Occurs(NoSuchFont, disk.data)

(***************************************************************************)
(* C5: the source text a generation leaves in the file is the text the     *)
(* same parameters give on a server that has generated nothing yet: it     *)
(* depends on the parameters only, not on the generations before.          *)
(***************************************************************************)
C5_Deterministic ==
    page[Solo].success =>
        disk.data = generate_solidpython_model(NoDisk, form[Solo], "none").disk.data

\* A generation of the short text "H" has completed after a file existed.
C5_Witness ==
    /\ page[Solo].success
    /\ Len(form[Solo].input_text) = 1
    /\ form[Solo].size = MinValue
    /\ Len(disk.data) > 0

(***************************************************************************)
(* C6 (as claimed, its clause "never the artifact of the other request"):  *)
(* with two sessions served concurrently on different parameters, the      *)
(* link a session is shown does not carry the source built from the other  *)
(* session's parameters.                                                   *)
(***************************************************************************)
C6_NeverOthersArtifact ==
    \A s, t \in Sessions :
        (/\ s # t
         /\ runs[s] > 0 /\ runs[t] > 0
         /\ form[s] # form[t]
         /\ page[s].success /\ page[s].links # <<>>) =>
            page[s].links[1].bytes_data # scad_render(BuildModel(form[t]))

(***************************************************************************)
(* C7: a page run in which the render or the write failed shows the        *)
(* exception and neither a success message nor a link, and the artifact    *)
(* is not produced by a second attempt.                                    *)
(***************************************************************************)
C7_FailurePropagates ==
    fault[Solo] # "none" =>
        /\ ~page[Solo].success
        /\ page[Solo].links = <<>>
        /\ page[Solo].error \in {"Exception", "OSError"}
        /\ disk.data # scad_render(BuildModel(form[Solo]))

C7_Witness ==
    /\ fault[Solo] = "render"
    /\ page[Solo].error = "Exception"
    /\ disk.exists
    /\ disk.data = <<>>

(***************************************************************************)
(* C10: in one session, a page run that submits the form leaves in the     *)
(* file exactly the render of the submitted values and shows one link,     *)
(* named text_model.scad, whose base64 text decodes to those bytes; every  *)
(* other page run leaves the file as it was and shows no link.             *)
(***************************************************************************)
C10_FileAndLink ==
    [][ /\ Generated(Solo)' =>
            /\ mode[Solo] = SolidMode
            /\ disk'.exists
            /\ disk'.data = scad_render(BuildModel(form'[Solo]))
            /\ Len(page'[Solo].links) = 1
            /\ href(page'[Solo].links[1]).download = FileName
            /\ href(page'[Solo].links[1]).mime = MimeType
            /\ B64Decode(href(page'[Solo].links[1]).b64) = disk'.data
        /\ ~Generated(Solo)' =>
            /\ disk' = disk
            /\ page'[Solo].links = <<>>
            /\ ~page'[Solo].success ]_vars

\* The file holds the render of "Hi" and the page links to it.
C10_Witness ==
    /\ Generated(Solo)
    /\ form[Solo].input_text = Hi
    /\ disk.data = scad_render(BuildModel(form[Solo]))
    /\ Len(page[Solo].links) = 1
    /\ B64Decode(href(page[Solo].links[1]).b64) = disk.data

(***************************************************************************)
(* The leaves of a tree of unions, left to right: the order in which they  *)
(* were unioned into the root.                                             *)
(***************************************************************************)
RECURSIVE Leaves(_)
Leaves(node) ==
    IF node.kind = "union" THEN Leaves(node.left) \o Leaves(node.right)
    ELSE <<node>>

\* The fraction `angle` is i * 360 / n degrees.
IsStep(angle, i, n) == angle.num * n = i * 360 * angle.den

(***************************************************************************)
(* C8: a build that returns has unioned, in this order, 1 body, then arms  *)
(* 0..N-1, then mounts 0..N-1, arm i and mount i rotated by i * (360 / N)  *)
(* degrees about Z.                                                        *)
(***************************************************************************)
C8_FrameTree ==
    frame.pc = "done" =>
        LET n == frame.args.symmetry_count
            L == Leaves(frame.root[1])
        IN  /\ n >= 1
            /\ Len(L) = 2 * n + 1
            /\ L[1] = BodyLeaf(frame.args)
            /\ \A i \in 0..(n - 1) :
                 /\ L[2 + i].kind = "arm"
                 /\ L[2 + i].prim.w = frame.args.arm_length
                 /\ IsStep(L[2 + i].rotate_z, i, n)
                 /\ L[2 + n + i].kind = "mount"
                 /\ L[2 + n + i].prim.d = frame.args.motor_mount_diameter
                 /\ IsStep(L[2 + n + i].rotate_z, i, n)

\* build(100, 10, 60, 10, 3) has returned: 1 body, 3 arms, 3 mounts.
C8_Witness ==
    /\ frame.pc = "done"
    /\ frame.args.symmetry_count = 3
    /\ frame.args.arm_length = 100
    /\ Len(Leaves(frame.root[1])) = 7

(***************************************************************************)
(* C9: a build with motor_mount_diameter = arm_length, with arm_length = 0 *)
(* or with a negative arm_length raises InvalidParameter, and no call to   *)
(* the kernel has been made when it does.                                  *)
(***************************************************************************)
C9_FrameRejects ==
    (/\ frame.pc \notin {"idle", "validate"}
     /\ \/ frame.args.motor_mount_diameter = frame.args.arm_length
        \/ frame.args.arm_length <= 0) =>
        /\ frame.pc = "raised"
        /\ frame.raised = "InvalidParameter"
        /\ frame.kernel_calls = 0
        /\ frame.root = <<>>

\* The boundary case alone: every other precondition holds.
C9_Witness ==
    /\ frame.pc = "raised"
    /\ frame.args.motor_mount_diameter = frame.args.arm_length
    /\ frame.args.arm_length > 0
    /\ frame.args.arm_width > 0
    /\ frame.args.symmetry_count >= 1
    /\ frame.kernel_calls = 0

=============================================================================
